---- MODULE Spec2Model ----
(***************************************************************************)
(* Model of src/src/owner.rs: the Owner finite state machine persisted in  *)
(* one storage Item, with the emergency-owner feature enabled.             *)
(*                                                                         *)
(* Option<T> is modelled as a sequence of length 0 or 1, Result<T, E> as a *)
(* record with an ok flag.  Addr and String values are TLA+ strings.       *)
(***************************************************************************)
EXTENDS Naturals, Sequences, FiniteSets, TLC

\* Number of well-formed addresses the model draws identities from.
MaxAddr == 3

\* Number of malformed input strings the model draws from.
MaxMalformed == 1

AddrNames == <<"alice", "bob", "carol", "dave", "erin", "frank">>

MalformedNames == <<"ab", "Not_Normalized", "", "x">>

\* Addr values: what the host hands in as info.sender, and what
\* addr_validate returns.
Addrs == {AddrNames[i] : i \in 1..MaxAddr}

\* Strings that addr_validate rejects.
Malformed == {MalformedNames[i] : i \in 1..MaxMalformed}

\* Untrusted String inputs carried by the messages.
Strings == Addrs \cup Malformed

None == <<>>

Some(x) == <<x>>

Ok(v) == [ok |-> TRUE, val |-> v]

Err(e) == [ok |-> FALSE, err |-> e]

Unit == "()"

\* enum OwnerState
Uninitialized == [kind |-> "Uninitialized"]

Std(o, e) == [kind |-> "Std", owner |-> o, emergency_owner |-> e]

Proposed(o, p, e) ==
    [kind |-> "Proposed", owner |-> o, proposed |-> p, emergency_owner |-> e]

Abolished == [kind |-> "Abolished"]

OptAddrs == {None} \cup {Some(a) : a \in Addrs}

OwnerState ==
    {Uninitialized, Abolished}
        \cup {Std(o, e) : o \in Addrs, e \in OptAddrs}
        \cup {Proposed(o, p, e) : o \in Addrs, p \in Addrs, e \in OptAddrs}

\* enum OwnerUpdate
ProposeNewOwner(s) == [type |-> "ProposeNewOwner", proposed |-> s]

ClearProposed == [type |-> "ClearProposed"]

AcceptProposed == [type |-> "AcceptProposed"]

AbolishOwnerRole == [type |-> "AbolishOwnerRole"]

SetEmergencyOwner(s) == [type |-> "SetEmergencyOwner", emergency_owner |-> s]

ClearEmergencyOwner == [type |-> "ClearEmergencyOwner"]

OwnerUpdate ==
    {ClearProposed, AcceptProposed, AbolishOwnerRole, ClearEmergencyOwner}
        \cup {ProposeNewOwner(s) : s \in Strings}
        \cup {SetEmergencyOwner(s) : s \in Strings}

\* enum OwnerInit
SetInitialOwner(s) == [type |-> "SetInitialOwner", owner |-> s]

OwnerInit == {AbolishOwnerRole} \cup {SetInitialOwner(s) : s \in Strings}

\* enum OwnerError
StdError == "Std"

NotOwner == "NotOwner"

NotProposedOwner == "NotProposedOwner"

StateTransitionError == "StateTransitionError"

NotEmergencyOwner == "NotEmergencyOwner"

VARIABLES
    store,   \* the storage slot of the Item: None or Some(OwnerState)
    op,      \* the entrypoint of the last call: "none", "initialize", "update",
             \* "assert_owner", "assert_proposed", "assert_emergency_owner"
    action,  \* the OwnerInit / OwnerUpdate message of the last call
    sender,  \* info.sender of the last call (None for initialize)
    pre,     \* the storage slot as it was when the last call started
    result,  \* what the last call returned
    loads,   \* how many times the last call loaded the slot
    saves,   \* how many times the last call saved the slot
    race     \* calls submitted to the host together, and those of them that
             \* the host has executed (each as one atomic call)

vars == <<store, op, action, sender, pre, result, loads, saves, race>>

\* api.addr_validate: the input string itself as an Addr, or an error.
addr_validate(s) == IF s \in Addrs THEN Ok(s) ELSE Err(StdError)

\* Owner::state
state(st) == IF st = None THEN Uninitialized ELSE st[1]

\* Owner::current
current(st) ==
    LET s == state(st) IN
    CASE s.kind = "Std" -> Some(s.owner)
      [] s.kind = "Proposed" -> Some(s.owner)
      [] OTHER -> None

\* is_owner that matches the Std state only.
is_owner_std_only(st, addr) ==
    LET s == state(st) IN
    IF s.kind = "Std" /\ s.owner = addr THEN TRUE ELSE FALSE

\* Owner::is_owner
is_owner(st, addr) ==
    LET c == current(st) IN
    IF c # None /\ c[1] = addr THEN TRUE ELSE FALSE

\* Owner::proposed
proposed(st) ==
    LET s == state(st) IN
    CASE s.kind = "Proposed" -> Some(s.proposed)
      [] OTHER -> None

\* Owner::is_proposed
is_proposed(st, addr) ==
    LET p == proposed(st) IN
    IF p # None /\ p[1] = addr THEN TRUE ELSE FALSE

\* Owner::emergency_owner
emergency_owner(st) ==
    LET s == state(st) IN
    CASE s.kind = "Std" -> s.emergency_owner
      [] s.kind = "Proposed" -> s.emergency_owner
      [] OTHER -> None

\* Owner::is_emergency_owner
is_emergency_owner(st, addr) ==
    LET e == emergency_owner(st) IN
    IF e # None /\ e[1] = addr THEN TRUE ELSE FALSE

\* query whose proposed field is filled from current().
query_proposed_from_current(st) ==
    [owner |-> current(st),
     proposed |-> current(st),
     initialized |-> ~(state(st).kind = "Uninitialized"),
     abolished |-> (state(st).kind = "Abolished"),
     emergency_owner |-> emergency_owner(st)]

\* Owner::query
query(st) ==
    [owner |-> current(st),
     proposed |-> proposed(st),
     initialized |-> ~(state(st).kind = "Uninitialized"),
     abolished |-> (state(st).kind = "Abolished"),
     emergency_owner |-> emergency_owner(st)]

\* assert_owner that also lets the proposed owner through.
assert_owner_or_proposed(st, caller) ==
    IF ~is_owner(st, caller) /\ ~is_proposed(st, caller)
    THEN Err(NotOwner)
    ELSE Ok(Unit)

\* Owner::assert_owner
assert_owner(st, caller) ==
    IF ~is_owner(st, caller) THEN Err(NotOwner) ELSE Ok(Unit)

\* assert_proposed that also lets the current owner through.
assert_proposed_or_owner(st, caller) ==
    IF ~is_proposed(st, caller) /\ ~is_owner(st, caller)
    THEN Err(NotProposedOwner)
    ELSE Ok(Unit)

\* Owner::assert_proposed
assert_proposed(st, caller) ==
    IF ~is_proposed(st, caller) THEN Err(NotProposedOwner) ELSE Ok(Unit)

\* assert_emergency_owner that raises NotOwner.
assert_emergency_owner_wrong_error(st, caller) ==
    IF ~is_emergency_owner(st, caller) THEN Err(NotOwner) ELSE Ok(Unit)

\* Owner::assert_emergency_owner
assert_emergency_owner(st, caller) ==
    IF ~is_emergency_owner(st, caller) THEN Err(NotEmergencyOwner) ELSE Ok(Unit)

\* The (Std, ProposeNewOwner) arm with owner and proposed swapped in the
\* state it builds.
std_propose_new_owner_swapped(st, caller, s, raw) ==
    LET a == assert_owner(st, caller)
        validated == addr_validate(raw)
    IN  IF ~a.ok THEN a
        ELSE IF ~validated.ok THEN validated
        ELSE Ok(Proposed(validated.val, s.owner, s.emergency_owner))

\* The (Std, ProposeNewOwner) arm that validates the address before it
\* checks the caller.
std_propose_new_owner_validates_first(st, caller, s, raw) ==
    LET a == assert_owner(st, caller)
        validated == addr_validate(raw)
    IN  IF ~validated.ok THEN validated
        ELSE IF ~a.ok THEN a
        ELSE Ok(Proposed(s.owner, validated.val, s.emergency_owner))

\* The (Std, ProposeNewOwner) arm that refuses the owner as nominee.
std_propose_new_owner_rejects_self(st, caller, s, raw) ==
    LET a == assert_owner(st, caller)
        validated == addr_validate(raw)
    IN  IF ~a.ok THEN a
        ELSE IF ~validated.ok THEN validated
        ELSE IF validated.val = s.owner THEN Err(StateTransitionError)
        ELSE Ok(Proposed(s.owner, validated.val, s.emergency_owner))

\* Owner::transition_state, arm (Std, ProposeNewOwner)
std_propose_new_owner(st, caller, s, raw) ==
    LET a == assert_owner(st, caller)
        validated == addr_validate(raw)
    IN  IF ~a.ok THEN a
        ELSE IF ~validated.ok THEN validated
        ELSE Ok(Proposed(s.owner, validated.val, s.emergency_owner))

\* The (Std, SetEmergencyOwner) arm that also lets the emergency owner name
\* a successor.
std_set_emergency_owner_by_emergency(st, caller, s, raw) ==
    LET a == IF is_emergency_owner(st, caller) THEN Ok(Unit)
             ELSE assert_owner(st, caller)
        validated == addr_validate(raw)
    IN  IF ~a.ok THEN a
        ELSE IF ~validated.ok THEN validated
        ELSE Ok(Std(s.owner, Some(validated.val)))

\* The (Std, SetEmergencyOwner) arm that keeps an emergency owner that is
\* already set.
std_set_emergency_owner_keeps_existing(st, caller, s, raw) ==
    LET a == assert_owner(st, caller)
        validated == addr_validate(raw)
    IN  IF ~a.ok THEN a
        ELSE IF ~validated.ok THEN validated
        ELSE IF s.emergency_owner # None THEN Ok(s)
        ELSE Ok(Std(s.owner, Some(validated.val)))

\* Owner::transition_state, arm (Std, SetEmergencyOwner)
std_set_emergency_owner(st, caller, s, raw) ==
    LET a == assert_owner(st, caller)
        validated == addr_validate(raw)
    IN  IF ~a.ok THEN a
        ELSE IF ~validated.ok THEN validated
        ELSE Ok(Std(s.owner, Some(validated.val)))

\* The (Std, ClearEmergencyOwner) arm that carries the emergency owner over.
std_clear_emergency_owner_keeps(st, caller, s) ==
    LET a == assert_owner(st, caller)
    IN  IF ~a.ok THEN a ELSE Ok(Std(s.owner, s.emergency_owner))

\* Owner::transition_state, arm (Std, ClearEmergencyOwner)
std_clear_emergency_owner(st, caller, s) ==
    LET a == assert_owner(st, caller)
    IN  IF ~a.ok THEN a ELSE Ok(Std(s.owner, None))

\* The (Std, AbolishOwnerRole) arm that resets to Uninitialized.
std_abolish_owner_role_to_uninitialized(st, caller) ==
    LET a == assert_owner(st, caller)
    IN  IF ~a.ok THEN a ELSE Ok(Uninitialized)

\* Owner::transition_state, arm (Std, AbolishOwnerRole)
std_abolish_owner_role(st, caller) ==
    LET a == assert_owner(st, caller)
    IN  IF ~a.ok THEN a ELSE Ok(Abolished)

\* The (Proposed, AcceptProposed) arm guarded by assert_owner instead of
\* assert_proposed.
proposed_accept_proposed_by_owner(st, caller, s) ==
    LET a == assert_owner(st, caller)
    IN  IF ~a.ok THEN a ELSE Ok(Std(s.proposed, s.emergency_owner))

\* The (Proposed, AcceptProposed) arm that keeps the old owner.
proposed_accept_proposed_keeps_owner(st, caller, s) ==
    LET a == assert_proposed(st, caller)
    IN  IF ~a.ok THEN a ELSE Ok(Std(s.owner, s.emergency_owner))

\* The (Proposed, AcceptProposed) arm that drops the emergency owner.
proposed_accept_proposed_drops_emergency(st, caller, s) ==
    LET a == assert_proposed(st, caller)
    IN  IF ~a.ok THEN a ELSE Ok(Std(s.proposed, None))

\* The (Proposed, AcceptProposed) arm that swaps the two roles instead of
\* retiring the old owner.
proposed_accept_proposed_swaps_roles(st, caller, s) ==
    LET a == assert_proposed(st, caller)
    IN  IF ~a.ok THEN a
        ELSE Ok(Proposed(s.proposed, s.owner, s.emergency_owner))

\* Owner::transition_state, arm (Proposed, AcceptProposed)
proposed_accept_proposed(st, caller, s) ==
    LET a == assert_proposed(st, caller)
    IN  IF ~a.ok THEN a ELSE Ok(Std(s.proposed, s.emergency_owner))

\* The (Proposed, ClearProposed) arm guarded by assert_proposed instead of
\* assert_owner.
proposed_clear_proposed_by_proposed(st, caller, s) ==
    LET a == assert_proposed(st, caller)
    IN  IF ~a.ok THEN a ELSE Ok(Std(s.owner, s.emergency_owner))

\* The (Proposed, ClearProposed) arm that installs the proposed owner.
proposed_clear_proposed_installs_proposed(st, caller, s) ==
    LET a == assert_owner(st, caller)
    IN  IF ~a.ok THEN a ELSE Ok(Std(s.proposed, s.emergency_owner))

\* The (Proposed, ClearProposed) arm that leaves the proposal in place.
proposed_clear_proposed_not_cleared(st, caller, s) ==
    LET a == assert_owner(st, caller)
    IN  IF ~a.ok THEN a
        ELSE Ok(Proposed(s.owner, s.proposed, s.emergency_owner))

\* Owner::transition_state, arm (Proposed, ClearProposed)
proposed_clear_proposed(st, caller, s) ==
    LET a == assert_owner(st, caller)
    IN  IF ~a.ok THEN a ELSE Ok(Std(s.owner, s.emergency_owner))

\* transition_state whose AbolishOwnerRole arm matches every state.
transition_state_abolish_any_state(st, caller, event) ==
    LET s == state(st) IN
    CASE s.kind = "Std" /\ event.type = "ProposeNewOwner" ->
            std_propose_new_owner(st, caller, s, event.proposed)
      [] s.kind = "Std" /\ event.type = "SetEmergencyOwner" ->
            std_set_emergency_owner(st, caller, s, event.emergency_owner)
      [] s.kind = "Std" /\ event.type = "ClearEmergencyOwner" ->
            std_clear_emergency_owner(st, caller, s)
      [] event.type = "AbolishOwnerRole" ->
            std_abolish_owner_role(st, caller)
      [] s.kind = "Proposed" /\ event.type = "AcceptProposed" ->
            proposed_accept_proposed(st, caller, s)
      [] s.kind = "Proposed" /\ event.type = "ClearProposed" ->
            proposed_clear_proposed(st, caller, s)
      [] OTHER -> Err(StateTransitionError)

\* transition_state whose ClearEmergencyOwner arm matches every state and
\* builds the new state from the current owner.
transition_state_clear_emergency_any_state(st, caller, event) ==
    LET s == state(st) IN
    CASE s.kind = "Std" /\ event.type = "ProposeNewOwner" ->
            std_propose_new_owner(st, caller, s, event.proposed)
      [] s.kind = "Std" /\ event.type = "SetEmergencyOwner" ->
            std_set_emergency_owner(st, caller, s, event.emergency_owner)
      [] event.type = "ClearEmergencyOwner" ->
            LET a == assert_owner(st, caller)
            IN  IF ~a.ok THEN a ELSE Ok(Std(caller, None))
      [] s.kind = "Std" /\ event.type = "AbolishOwnerRole" ->
            std_abolish_owner_role(st, caller)
      [] s.kind = "Proposed" /\ event.type = "AcceptProposed" ->
            proposed_accept_proposed(st, caller, s)
      [] s.kind = "Proposed" /\ event.type = "ClearProposed" ->
            proposed_clear_proposed(st, caller, s)
      [] OTHER -> Err(StateTransitionError)

\* transition_state whose ProposeNewOwner arm also matches Proposed, so that
\* the owner can replace a pending proposal.
transition_state_repropose(st, caller, event) ==
    LET s == state(st) IN
    CASE s.kind \in {"Std", "Proposed"} /\ event.type = "ProposeNewOwner" ->
            std_propose_new_owner(st, caller, s, event.proposed)
      [] s.kind = "Std" /\ event.type = "SetEmergencyOwner" ->
            std_set_emergency_owner(st, caller, s, event.emergency_owner)
      [] s.kind = "Std" /\ event.type = "ClearEmergencyOwner" ->
            std_clear_emergency_owner(st, caller, s)
      [] s.kind = "Std" /\ event.type = "AbolishOwnerRole" ->
            std_abolish_owner_role(st, caller)
      [] s.kind = "Proposed" /\ event.type = "AcceptProposed" ->
            proposed_accept_proposed(st, caller, s)
      [] s.kind = "Proposed" /\ event.type = "ClearProposed" ->
            proposed_clear_proposed(st, caller, s)
      [] OTHER -> Err(StateTransitionError)

\* transition_state with one more arm, (Std, ClearProposed), that accepts a
\* clear when nothing is proposed.
transition_state_clear_idempotent(st, caller, event) ==
    LET s == state(st) IN
    CASE s.kind = "Std" /\ event.type = "ProposeNewOwner" ->
            std_propose_new_owner(st, caller, s, event.proposed)
      [] s.kind = "Std" /\ event.type = "SetEmergencyOwner" ->
            std_set_emergency_owner(st, caller, s, event.emergency_owner)
      [] s.kind = "Std" /\ event.type = "ClearEmergencyOwner" ->
            std_clear_emergency_owner(st, caller, s)
      [] s.kind = "Std" /\ event.type = "AbolishOwnerRole" ->
            std_abolish_owner_role(st, caller)
      [] s.kind = "Proposed" /\ event.type = "AcceptProposed" ->
            proposed_accept_proposed(st, caller, s)
      [] s.kind = "Proposed" /\ event.type = "ClearProposed" ->
            proposed_clear_proposed(st, caller, s)
      [] s.kind = "Std" /\ event.type = "ClearProposed" ->
            LET a == assert_owner(st, caller)
            IN  IF ~a.ok THEN a ELSE Ok(s)
      [] OTHER -> Err(StateTransitionError)

\* Owner::transition_state: the match on (state, event), arms in source order
transition_state(st, caller, event) ==
    LET s == state(st) IN
    CASE s.kind = "Std" /\ event.type = "ProposeNewOwner" ->
            std_propose_new_owner(st, caller, s, event.proposed)
      [] s.kind = "Std" /\ event.type = "SetEmergencyOwner" ->
            std_set_emergency_owner(st, caller, s, event.emergency_owner)
      [] s.kind = "Std" /\ event.type = "ClearEmergencyOwner" ->
            std_clear_emergency_owner(st, caller, s)
      [] s.kind = "Std" /\ event.type = "AbolishOwnerRole" ->
            std_abolish_owner_role(st, caller)
      [] s.kind = "Proposed" /\ event.type = "AcceptProposed" ->
            proposed_accept_proposed(st, caller, s)
      [] s.kind = "Proposed" /\ event.type = "ClearProposed" ->
            proposed_clear_proposed(st, caller, s)
      [] OTHER -> Err(StateTransitionError)

\* The attributes of the Response that Owner::update builds from query().
response(res, caller) ==
    [action |-> "update_owner",
     owner |-> IF res.owner = None THEN "None" ELSE res.owner[1],
     proposed |-> IF res.proposed = None THEN "None" ELSE res.proposed[1],
     sender |-> caller]

\* initialize without the match on the initial state.
initialize_any_state(st, init_action) ==
    IF init_action.type = "SetInitialOwner"
    THEN LET validated == addr_validate(init_action.owner) IN
         IF ~validated.ok
         THEN [storage |-> st, ret |-> validated]
         ELSE [storage |-> Some(Std(validated.val, None)), ret |-> Ok(Unit)]
    ELSE [storage |-> Some(Abolished), ret |-> Ok(Unit)]

\* initialize that makes the initial owner the emergency owner as well.
initialize_owner_as_emergency(st, init_action) ==
    LET initial_state == state(st) IN
    IF initial_state.kind = "Uninitialized"
    THEN IF init_action.type = "SetInitialOwner"
         THEN LET validated == addr_validate(init_action.owner) IN
              IF ~validated.ok
              THEN [storage |-> st, ret |-> validated]
              ELSE [storage |-> Some(Std(validated.val, Some(validated.val))),
                    ret |-> Ok(Unit)]
         ELSE [storage |-> Some(Abolished), ret |-> Ok(Unit)]
    ELSE [storage |-> st, ret |-> Err(StateTransitionError)]

\* initialize whose AbolishOwnerRole arm returns without saving.
initialize_abolish_not_saved(st, init_action) ==
    LET initial_state == state(st) IN
    IF initial_state.kind = "Uninitialized"
    THEN IF init_action.type = "SetInitialOwner"
         THEN LET validated == addr_validate(init_action.owner) IN
              IF ~validated.ok
              THEN [storage |-> st, ret |-> validated]
              ELSE [storage |-> Some(Std(validated.val, None)), ret |-> Ok(Unit)]
         ELSE [storage |-> st, ret |-> Ok(Unit)]
    ELSE [storage |-> st, ret |-> Err(StateTransitionError)]

\* initialize that also accepts the Abolished state.
initialize_after_abolished(st, init_action) ==
    LET initial_state == state(st) IN
    IF initial_state.kind \in {"Uninitialized", "Abolished"}
    THEN IF init_action.type = "SetInitialOwner"
         THEN LET validated == addr_validate(init_action.owner) IN
              IF ~validated.ok
              THEN [storage |-> st, ret |-> validated]
              ELSE [storage |-> Some(Std(validated.val, None)), ret |-> Ok(Unit)]
         ELSE [storage |-> Some(Abolished), ret |-> Ok(Unit)]
    ELSE [storage |-> st, ret |-> Err(StateTransitionError)]

\* Owner::initialize: the storage it leaves and the value it returns
initialize(st, init_action) ==
    LET initial_state == state(st) IN
    IF initial_state.kind = "Uninitialized"
    THEN IF init_action.type = "SetInitialOwner"
         THEN LET validated == addr_validate(init_action.owner) IN
              IF ~validated.ok
              THEN [storage |-> st, ret |-> validated]
              ELSE [storage |-> Some(Std(validated.val, None)), ret |-> Ok(Unit)]
         ELSE [storage |-> Some(Abolished), ret |-> Ok(Unit)]
    ELSE [storage |-> st, ret |-> Err(StateTransitionError)]

\* update that writes the loaded state back when the transition fails.
update_persists_loaded_state(st, caller, event) ==
    LET new_state == transition_state(st, caller, event) IN
    IF ~new_state.ok
    THEN [storage |-> Some(state(st)), ret |-> new_state]
    ELSE LET saved == Some(new_state.val) IN
         [storage |-> saved, ret |-> Ok(response(query(saved), caller))]

\* update that builds its response from the storage as it was before the save.
update_response_from_old_state(st, caller, event) ==
    LET new_state == transition_state(st, caller, event) IN
    IF ~new_state.ok
    THEN [storage |-> st, ret |-> new_state]
    ELSE LET saved == Some(new_state.val) IN
         [storage |-> saved, ret |-> Ok(response(query(st), caller))]

\* Owner::update: the storage it leaves and the value it returns
update(st, caller, event) ==
    LET new_state == transition_state(st, caller, event) IN
    IF ~new_state.ok
    THEN [storage |-> st, ret |-> new_state]
    ELSE LET saved == Some(new_state.val) IN
         [storage |-> saved, ret |-> Ok(response(query(saved), caller))]

\* Loads of the slot by Owner::state: one may_load.
state_loads == 1

\* Loads of the slot by Owner::current, which calls state().
current_loads == state_loads

\* Loads of the slot by Owner::proposed, which calls state().
proposed_loads == state_loads

\* Loads of the slot by Owner::emergency_owner, which calls state().
emergency_owner_loads == state_loads

\* Loads of the slot by Owner::query: current(), proposed(), state() twice
\* and emergency_owner().
query_loads ==
    current_loads + proposed_loads + state_loads + state_loads
        + emergency_owner_loads

\* Loads of the slot by Owner::assert_owner: is_owner() calls current().
assert_owner_loads == current_loads

\* Loads of the slot by Owner::assert_proposed: is_proposed() calls proposed().
assert_proposed_loads == proposed_loads

\* Loads of the slot by Owner::assert_emergency_owner: is_emergency_owner()
\* calls emergency_owner().
assert_emergency_owner_loads == emergency_owner_loads

\* Loads of the slot by Owner::transition_state: state(), then the assertion
\* that opens the matching arm (the catch-all arm has none).
transition_state_loads(st, event) ==
    LET s == state(st) IN
    state_loads +
        CASE s.kind = "Std" /\ event.type = "ProposeNewOwner" -> assert_owner_loads
          [] s.kind = "Std" /\ event.type = "SetEmergencyOwner" -> assert_owner_loads
          [] s.kind = "Std" /\ event.type = "ClearEmergencyOwner" -> assert_owner_loads
          [] s.kind = "Std" /\ event.type = "AbolishOwnerRole" -> assert_owner_loads
          [] s.kind = "Proposed" /\ event.type = "AcceptProposed" ->
                assert_proposed_loads
          [] s.kind = "Proposed" /\ event.type = "ClearProposed" -> assert_owner_loads
          [] OTHER -> 0

\* Loads of the slot by Owner::update: transition_state, and query() once the
\* new state is saved.
update_loads(st, caller, event) ==
    transition_state_loads(st, event)
        + IF transition_state(st, caller, event).ok THEN query_loads ELSE 0

\* update that saves whatever transition_state returned.
update_saves_always(st, caller, event) == 1

\* Saves of the slot by Owner::update: one, after transition_state succeeded.
update_saves(st, caller, event) ==
    IF transition_state(st, caller, event).ok THEN 1 ELSE 0

\* Loads of the slot by Owner::initialize: state().
initialize_loads == state_loads

\* Saves of the slot by Owner::initialize: one, in the Uninitialized arm after
\* the address is validated.
initialize_saves(st, init_action) ==
    IF initialize(st, init_action).ret.ok THEN 1 ELSE 0

\* No calls are waiting at the host.
NoRace == [submitted |-> {}, executed |-> {}]

Init ==
    /\ store = None
    /\ op = "none"
    /\ action = [type |-> "none"]
    /\ sender = None
    /\ pre = None
    /\ result = Ok(Unit)
    /\ loads = 0
    /\ saves = 0
    /\ race = NoRace

\* The effect of one call of Owner::update on the slot and the call record.
UpdateCall(caller, event) ==
    LET r == update(store, caller, event) IN
    /\ store' = r.storage
    /\ op' = "update"
    /\ action' = event
    /\ sender' = Some(caller)
    /\ pre' = store
    /\ result' = r.ret
    /\ loads' = update_loads(store, caller, event)
    /\ saves' = update_saves(store, caller, event)

\* A call of Owner::initialize with any OwnerInit message.
Initialize ==
    \E init_action \in OwnerInit :
        LET r == initialize(store, init_action) IN
        /\ store' = r.storage
        /\ op' = "initialize"
        /\ action' = init_action
        /\ sender' = None
        /\ pre' = store
        /\ result' = r.ret
        /\ loads' = initialize_loads
        /\ saves' = initialize_saves(store, init_action)
        /\ race' = race

\* A call of Owner::update by any sender with any OwnerUpdate message.
Update ==
    \E caller \in Addrs, event \in OwnerUpdate :
        /\ UpdateCall(caller, event)
        /\ race' = race

\* A call of Owner::assert_owner by a handler of the embedding contract; it
\* borrows the storage immutably.
AssertOwner ==
    \E caller \in Addrs :
        /\ store' = store
        /\ op' = "assert_owner"
        /\ action' = [type |-> "none"]
        /\ sender' = Some(caller)
        /\ pre' = store
        /\ result' = assert_owner(store, caller)
        /\ loads' = assert_owner_loads
        /\ saves' = 0
        /\ race' = race

\* A call of Owner::assert_proposed; it borrows the storage immutably.
AssertProposed ==
    \E caller \in Addrs :
        /\ store' = store
        /\ op' = "assert_proposed"
        /\ action' = [type |-> "none"]
        /\ sender' = Some(caller)
        /\ pre' = store
        /\ result' = assert_proposed(store, caller)
        /\ loads' = assert_proposed_loads
        /\ saves' = 0
        /\ race' = race

\* A call of Owner::assert_emergency_owner; it borrows the storage immutably.
AssertEmergencyOwner ==
    \E caller \in Addrs :
        /\ store' = store
        /\ op' = "assert_emergency_owner"
        /\ action' = [type |-> "none"]
        /\ sender' = Some(caller)
        /\ pre' = store
        /\ result' = assert_emergency_owner(store, caller)
        /\ loads' = assert_emergency_owner_loads
        /\ saves' = 0
        /\ race' = race

Next ==
    \/ Initialize
    \/ Update
    \/ AssertOwner
    \/ AssertProposed
    \/ AssertEmergencyOwner

Spec == Init /\ [][Next]_vars

\* The race of a cancel with an accept: the slot holds Proposed(A, B) with A
\* different from B, and the owner's ClearProposed and B's AcceptProposed are
\* both submitted.
InitRace ==
    /\ \E o \in Addrs, p \in Addrs, e \in OptAddrs :
          /\ o # p
          /\ store = Some(Proposed(o, p, e))
          /\ race = [submitted |->
                        {[sender |-> o, event |-> ClearProposed],
                         [sender |-> p, event |-> AcceptProposed]},
                     executed |-> {}]
    /\ op = "none"
    /\ action = [type |-> "none"]
    /\ sender = None
    /\ pre = None
    /\ result = Ok(Unit)
    /\ loads = 0
    /\ saves = 0

\* The host executes the submitted ClearProposed as one call of update.
RaceClearProposed ==
    \E m \in race.submitted \ race.executed :
        /\ m.event.type = "ClearProposed"
        /\ UpdateCall(m.sender, m.event)
        /\ race' = [race EXCEPT !.executed = @ \cup {m}]

\* The host executes the submitted AcceptProposed as one call of update.
RaceAcceptProposed ==
    \E m \in race.submitted \ race.executed :
        /\ m.event.type = "AcceptProposed"
        /\ UpdateCall(m.sender, m.event)
        /\ race' = [race EXCEPT !.executed = @ \cup {m}]

NextRace == RaceClearProposed \/ RaceAcceptProposed

SpecRace == InitRace /\ [][NextRace]_vars

TypeOK ==
    /\ store \in {None} \cup {Some(s) : s \in OwnerState \ {Uninitialized}}
    /\ op \in {"none", "initialize", "update",
               "assert_owner", "assert_proposed", "assert_emergency_owner"}
    /\ sender \in OptAddrs
    /\ pre \in {None} \cup {Some(s) : s \in OwnerState \ {Uninitialized}}
    /\ result.ok \in BOOLEAN
    /\ loads \in 0..(2 * state_loads + query_loads)
    /\ saves \in 0..1
    /\ race = NoRace

(***************************************************************************)
(* Properties                                                              *)
(***************************************************************************)

\* C1: Abolished is absorbing.  From Abolished every call, an update with
\* any event by any caller or an initialize with any action, fails with
\* StateTransitionError and leaves the slot holding Abolished.
C1_AbolishedAbsorbing ==
    [][state(store).kind = "Abolished" =>
          /\ op' \in {"initialize", "update"} =>
                result' = Err(StateTransitionError)
          /\ store' = store]_vars

\* C1 happens: an update was rejected in Abolished and Abolished remains.
C1_Witness ==
    /\ op = "update"
    /\ state(pre) = Abolished
    /\ result = Err(StateTransitionError)
    /\ state(store) = Abolished

\* The owner-gated update events.
OwnerGated ==
    {"ProposeNewOwner", "ClearProposed", "AbolishOwnerRole",
     "SetEmergencyOwner", "ClearEmergencyOwner"}

\* The owner-gated update events that transition_state accepts from the
\* owner in a state of the given kind.
OwnerGatedIn(kind) ==
    CASE kind = "Std" ->
            {"ProposeNewOwner", "AbolishOwnerRole",
             "SetEmergencyOwner", "ClearEmergencyOwner"}
      [] kind = "Proposed" -> {"ClearProposed"}
      [] OTHER -> {}

\* C2 as stated: in any state with a current owner, every owner-gated event
\* by a caller that is not the owner fails with NotOwner, state unchanged.
C2_Original ==
    (/\ op = "update"
     /\ current(pre) # None
     /\ action.type \in OwnerGated
     /\ sender # current(pre))
        => (result = Err(NotOwner) /\ store = pre)

\* C2 amended: in a state with a current owner, every owner-gated event that
\* the state accepts from its owner fails with NotOwner when the caller is
\* not the owner, and leaves the slot unchanged.
C2_NotOwnerRejected ==
    (/\ op = "update"
     /\ current(pre) # None
     /\ action.type \in OwnerGatedIn(state(pre).kind)
     /\ sender # current(pre))
        => (result = Err(NotOwner) /\ store = pre)

\* C2 happens: the proposed identity, not being owner, tried ClearProposed.
C2_Witness ==
    /\ op = "update"
    /\ state(pre).kind = "Proposed"
    /\ action.type = "ClearProposed"
    /\ sender = proposed(pre)
    /\ sender # current(pre)
    /\ result = Err(NotOwner)

\* C3: in Proposed(A, B), AcceptProposed by any caller other than B fails
\* with NotProposedOwner and leaves the slot unchanged.
C3_AcceptByOtherRejected ==
    (/\ op = "update"
     /\ state(pre).kind = "Proposed"
     /\ action.type = "AcceptProposed"
     /\ sender # proposed(pre))
        => (result = Err(NotProposedOwner) /\ store = pre)

\* C3 happens: the current owner A, different from B, tried AcceptProposed.
C3_Witness ==
    /\ op = "update"
    /\ state(pre).kind = "Proposed"
    /\ action.type = "AcceptProposed"
    /\ sender = current(pre)
    /\ sender # proposed(pre)
    /\ result = Err(NotProposedOwner)

\* C4: two-phase handover.  The owner changes from A to a different B only
\* in a successful AcceptProposed by B from Proposed(A, B); and a Proposed
\* state is only ever written by a successful ProposeNewOwner(B) that the
\* owner A of a Std state invoked, so no call nominates and installs at once.
C4_TwoPhaseHandover ==
    [][/\ (/\ current(store) # None
           /\ current(store') # None
           /\ current(store') # current(store))
              => /\ op' = "update"
                 /\ action'.type = "AcceptProposed"
                 /\ result'.ok
                 /\ state(store).kind = "Proposed"
                 /\ proposed(store) = current(store')
                 /\ sender' = current(store')
       /\ (state(store').kind = "Proposed" /\ store' # store)
              => /\ op' = "update"
                 /\ action'.type = "ProposeNewOwner"
                 /\ result'.ok
                 /\ state(store).kind = "Std"
                 /\ sender' = current(store)
                 /\ current(store') = current(store)
                 /\ addr_validate(action'.proposed).ok
                 /\ proposed(store') = Some(addr_validate(action'.proposed).val)
      ]_vars

\* C4 happens: B accepted and replaced a different owner A.
C4_Witness ==
    /\ op = "update"
    /\ action.type = "AcceptProposed"
    /\ state(pre).kind = "Proposed"
    /\ result.ok
    /\ current(store) = proposed(pre)
    /\ current(store) # current(pre)

\* C5: in Std, Proposed and Abolished, initialize with any action fails with
\* StateTransitionError and leaves the slot unchanged.
C5_InitializeOnlyOnce ==
    (op = "initialize" /\ state(pre).kind # "Uninitialized")
        => (result = Err(StateTransitionError) /\ store = pre)

\* C5 happens: initialize was called while a proposal was pending.
C5_Witness ==
    /\ op = "initialize"
    /\ state(pre).kind = "Proposed"
    /\ result = Err(StateTransitionError)

\* C6: from Uninitialized, initialize(SetInitialOwner(X)) with a valid X
\* succeeds (no caller is involved) and leaves current() = X, is_owner(X),
\* no proposed, no emergency owner, initialized and not abolished.
C6_SetInitialOwner ==
    (/\ op = "initialize"
     /\ state(pre).kind = "Uninitialized"
     /\ action.type = "SetInitialOwner"
     /\ action.owner \in Addrs)
        => /\ result = Ok(Unit)
           /\ sender = None
           /\ current(store) = Some(action.owner)
           /\ is_owner(store, action.owner)
           /\ proposed(store) = None
           /\ emergency_owner(store) = None
           /\ query(store).initialized
           /\ ~query(store).abolished

\* C6 happens: the first initialize set an owner.
C6_Witness ==
    /\ op = "initialize"
    /\ pre = None
    /\ action.type = "SetInitialOwner"
    /\ result.ok
    /\ state(store).kind = "Std"

\* C7: from Uninitialized, initialize(AbolishOwnerRole) succeeds (no caller
\* is involved) and writes Abolished; and from Abolished no call ever sets an
\* owner again.
C7_InitAbolish ==
    [][/\ (/\ state(store).kind = "Uninitialized"
           /\ op' = "initialize"
           /\ action'.type = "AbolishOwnerRole")
              => /\ result' = Ok(Unit)
                 /\ sender' = None
                 /\ store' = Some(Abolished)
       /\ state(store).kind = "Abolished" => current(store') = None
      ]_vars

\* C7 happens: the first initialize abolished the role.
C7_Witness ==
    /\ op = "initialize"
    /\ pre = None
    /\ action.type = "AbolishOwnerRole"
    /\ state(store) = Abolished

\* C8: in Uninitialized every update event by any caller fails with
\* StateTransitionError and nothing is written to the slot.
C8_UninitializedRejectsUpdate ==
    (op = "update" /\ state(pre).kind = "Uninitialized")
        => (result = Err(StateTransitionError) /\ store = None)

\* C8 happens: an update was called on the empty slot.
C8_Witness ==
    /\ op = "update"
    /\ pre = None
    /\ action.type = "ClearEmergencyOwner"
    /\ result = Err(StateTransitionError)

\* C9: in Std(owner = A), ProposeNewOwner(B) by A with a valid B succeeds and
\* leaves Proposed(A, B): current() = A, is_owner(A), proposed() = B,
\* is_proposed(B), initialized and not abolished.
C9_ProposeNewOwner ==
    (/\ op = "update"
     /\ state(pre).kind = "Std"
     /\ action.type = "ProposeNewOwner"
     /\ action.proposed \in Addrs
     /\ sender = current(pre))
        => /\ result.ok
           /\ state(store).kind = "Proposed"
           /\ current(store) = current(pre)
           /\ is_owner(store, state(pre).owner)
           /\ proposed(store) = Some(action.proposed)
           /\ is_proposed(store, action.proposed)
           /\ query(store).initialized
           /\ ~query(store).abolished

\* C9 happens: the owner proposed somebody else.
C9_Witness ==
    /\ op = "update"
    /\ state(pre).kind = "Std"
    /\ action.type = "ProposeNewOwner"
    /\ sender = current(pre)
    /\ result.ok
    /\ state(store).kind = "Proposed"
    /\ proposed(store) # current(store)

\* C10: in Proposed(A, B), AcceptProposed by B succeeds and leaves
\* Std(owner = B): current() = B, is_owner(B), proposed() = None and
\* is_proposed(B) false.
C10_AcceptProposed ==
    (/\ op = "update"
     /\ state(pre).kind = "Proposed"
     /\ action.type = "AcceptProposed"
     /\ sender = proposed(pre))
        => /\ result.ok
           /\ state(store).kind = "Std"
           /\ current(store) = proposed(pre)
           /\ is_owner(store, state(pre).proposed)
           /\ proposed(store) = None
           /\ ~is_proposed(store, state(pre).proposed)

\* C10 happens: B accepted the proposal of a different owner A.
C10_Witness ==
    /\ op = "update"
    /\ state(pre).kind = "Proposed"
    /\ state(pre).owner # state(pre).proposed
    /\ action.type = "AcceptProposed"
    /\ sender = proposed(pre)
    /\ state(store).kind = "Std"
    /\ result.ok

\* C11: in Proposed(A, B), ClearProposed by A succeeds and leaves
\* Std(owner = A): current() = A, proposed() = None, is_proposed(B) false.
C11_ClearProposed ==
    (/\ op = "update"
     /\ state(pre).kind = "Proposed"
     /\ action.type = "ClearProposed"
     /\ sender = current(pre))
        => /\ result.ok
           /\ state(store).kind = "Std"
           /\ current(store) = current(pre)
           /\ proposed(store) = None
           /\ ~is_proposed(store, state(pre).proposed)

\* C11 happens: owner A withdrew the proposal of a different B.
C11_Witness ==
    /\ op = "update"
    /\ state(pre).kind = "Proposed"
    /\ state(pre).owner # state(pre).proposed
    /\ action.type = "ClearProposed"
    /\ sender = current(pre)
    /\ result.ok
    /\ state(store).kind = "Std"

\* C12: in Std(owner = A, any emergency owner), AbolishOwnerRole by A
\* succeeds and leaves Abolished, where query returns no owner, no proposed,
\* no emergency owner, initialized and abolished, and is_owner(A) is false;
\* and once query reports abolished every update fails with
\* StateTransitionError.
C12_AbolishFromStd ==
    [][/\ (/\ state(store).kind = "Std"
           /\ op' = "update"
           /\ action'.type = "AbolishOwnerRole"
           /\ sender' = current(store))
              => /\ result'.ok
                 /\ state(store') = Abolished
                 /\ query(store') =
                        [owner |-> None, proposed |-> None,
                         initialized |-> TRUE, abolished |-> TRUE,
                         emergency_owner |-> None]
                 /\ ~is_owner(store', state(store).owner)
       /\ (query(store).abolished /\ op' = "update")
              => result' = Err(StateTransitionError)
      ]_vars

\* C12 happens: an owner that had an emergency owner abolished the role.
C12_Witness ==
    /\ op = "update"
    /\ state(pre).kind = "Std"
    /\ emergency_owner(pre) # None
    /\ action.type = "AbolishOwnerRole"
    /\ sender = current(pre)
    /\ query(store).abolished

\* C13 as stated: in Proposed(A, B, e), AbolishOwnerRole by the current owner
\* A succeeds and moves the state to Abolished.
C13_Original ==
    (/\ op = "update"
     /\ state(pre).kind = "Proposed"
     /\ action.type = "AbolishOwnerRole"
     /\ sender = current(pre))
        => (result.ok /\ state(store) = Abolished)

\* The (state, event) pairs of the update family that the transition table
\* lists.
InTable(kind, type) ==
    \/ kind = "Std" /\ type \in {"ProposeNewOwner", "AbolishOwnerRole",
                                 "SetEmergencyOwner", "ClearEmergencyOwner"}
    \/ kind = "Proposed" /\ type \in {"AcceptProposed", "ClearProposed",
                                      "AbolishOwnerRole"}

\* C14: the transition function is total, and every (state, event) pair
\* outside the transition table fails with StateTransitionError whoever
\* calls, leaving the slot unchanged; so also for the owner's ClearProposed
\* and AcceptProposed in Std and the owner's ProposeNewOwner,
\* SetEmergencyOwner and ClearEmergencyOwner in Proposed.
C14_OutsideTableRejected ==
    /\ \A caller \in Addrs, event \in OwnerUpdate :
          transition_state(store, caller, event).ok \in BOOLEAN
    /\ (op = "update" /\ ~InTable(state(pre).kind, action.type))
          => (result = Err(StateTransitionError) /\ store = pre)

\* C14 happens: the owner of a Proposed state tried to propose again.
C14_Witness ==
    /\ op = "update"
    /\ state(pre).kind = "Proposed"
    /\ action.type = "ProposeNewOwner"
    /\ sender = current(pre)
    /\ result = Err(StateTransitionError)

\* C15: in Std(owner = A), SetEmergencyOwner(X) by A with a valid X leaves
\* Std(A, Some(X)) with emergency_owner() = X and is_emergency_owner(X);
\* ClearEmergencyOwner by A leaves Std(A, None) with emergency_owner() = None
\* and is_emergency_owner false for the identity that held the role; both
\* leave the owner as it was and no proposal.
C15_SetAndClearEmergencyOwner ==
    /\ (/\ op = "update"
        /\ state(pre).kind = "Std"
        /\ action.type = "SetEmergencyOwner"
        /\ action.emergency_owner \in Addrs
        /\ sender = current(pre))
           => /\ result.ok
              /\ state(store) =
                     Std(state(pre).owner, Some(action.emergency_owner))
              /\ emergency_owner(store) = Some(action.emergency_owner)
              /\ is_emergency_owner(store, action.emergency_owner)
              /\ current(store) = current(pre)
              /\ proposed(store) = None
    /\ (/\ op = "update"
        /\ state(pre).kind = "Std"
        /\ action.type = "ClearEmergencyOwner"
        /\ sender = current(pre))
           => /\ result.ok
              /\ state(store) = Std(state(pre).owner, None)
              /\ emergency_owner(store) = None
              /\ \A x \in Addrs : ~is_emergency_owner(store, x)
              /\ current(store) = current(pre)
              /\ proposed(store) = None

\* C15 happens: the owner cleared an emergency owner that had been set.
C15_Witness ==
    /\ op = "update"
    /\ state(pre).kind = "Std"
    /\ emergency_owner(pre) # None
    /\ action.type = "ClearEmergencyOwner"
    /\ sender = current(pre)
    /\ result.ok
    /\ emergency_owner(store) = None

\* The state the transition table gives for a call (entrypoint, state,
\* message with a valid address).
TableTarget(entry, s, msg) ==
    CASE entry = "initialize" /\ msg.type = "SetInitialOwner" ->
            Std(msg.owner, None)
      [] entry = "initialize" /\ msg.type = "AbolishOwnerRole" -> Abolished
      [] msg.type = "ProposeNewOwner" ->
            Proposed(s.owner, msg.proposed, s.emergency_owner)
      [] msg.type = "AbolishOwnerRole" -> Abolished
      [] msg.type = "SetEmergencyOwner" ->
            Std(s.owner, Some(msg.emergency_owner))
      [] msg.type = "ClearEmergencyOwner" -> Std(s.owner, None)
      [] msg.type = "AcceptProposed" -> Std(s.proposed, s.emergency_owner)
      [] msg.type = "ClearProposed" -> Std(s.owner, s.emergency_owner)

C17_InitializedForever ==
    [][/\ state(store).kind # "Uninitialized"
              => /\ state(store').kind # "Uninitialized"
                 /\ query(store').initialized
                 /\ op' = "initialize" => ~result'.ok
       /\ store' # store => state(store').kind # "Uninitialized"
      ]_vars

\* C17 happens: a second initialize was tried after the owner was set.
C17_Witness ==
    /\ op = "initialize"
    /\ state(pre).kind = "Std"
    /\ ~result.ok
    /\ query(store).initialized

\* C18: in every reachable state the query projection has owner exactly in
\* Std and Proposed, proposed exactly in Proposed, emergency_owner only in
\* Std and Proposed, initialized false exactly in Uninitialized and abolished
\* true exactly in Abolished; abolished implies initialized and no owner, no
\* proposed and no emergency owner.
C18_QueryProjection ==
    LET q == query(store)
        k == state(store).kind
    IN  /\ (q.owner # None) <=> (k \in {"Std", "Proposed"})
        /\ (q.proposed # None) <=> (k = "Proposed")
        /\ (q.emergency_owner # None) => (k \in {"Std", "Proposed"})
        /\ (~q.initialized) <=> (k = "Uninitialized")
        /\ q.abolished <=> (k = "Abolished")
        /\ q.abolished =>
              /\ q.initialized
              /\ q.owner = None
              /\ q.proposed = None
              /\ q.emergency_owner = None

\* C18 happens: a state where all three roles are filled.
C18_Witness ==
    /\ state(store).kind = "Proposed"
    /\ query(store).owner # None
    /\ query(store).proposed # None
    /\ query(store).emergency_owner # None

\* C19: for every state and identity, is_owner holds iff the state is Std or
\* Proposed with that owner, is_proposed iff the state is Proposed with that
\* proposed, is_emergency_owner iff the state is Std or Proposed with that
\* emergency owner; all three are false in Uninitialized and Abolished.
C19_Predicates ==
    LET s == state(store) IN
    \A id \in Addrs :
        /\ is_owner(store, id)
              <=> (s.kind \in {"Std", "Proposed"} /\ s.owner = id)
        /\ is_proposed(store, id)
              <=> (s.kind = "Proposed" /\ s.proposed = id)
        /\ is_emergency_owner(store, id)
              <=> (s.kind \in {"Std", "Proposed"}
                     /\ s.emergency_owner = Some(id))
        /\ s.kind \in {"Uninitialized", "Abolished"}
              => /\ ~is_owner(store, id)
                 /\ ~is_proposed(store, id)
                 /\ ~is_emergency_owner(store, id)

\* C19 happens: a Proposed state whose three roles are held by three
\* different identities.
C19_Witness ==
    /\ state(store).kind = "Proposed"
    /\ state(store).owner # state(store).proposed
    /\ state(store).emergency_owner # None
    /\ state(store).emergency_owner # Some(state(store).owner)
    /\ state(store).emergency_owner # Some(state(store).proposed)

\* C20: assert_owner, assert_proposed and assert_emergency_owner succeed
\* exactly when is_owner, is_proposed and is_emergency_owner hold for the
\* caller, and fail with NotOwner, NotProposedOwner and NotEmergencyOwner
\* otherwise; a call of any of them leaves the slot as it was.
C20_Assertions ==
    /\ \A id \in Addrs :
          /\ assert_owner(store, id) =
                IF is_owner(store, id) THEN Ok(Unit) ELSE Err(NotOwner)
          /\ assert_proposed(store, id) =
                IF is_proposed(store, id) THEN Ok(Unit)
                ELSE Err(NotProposedOwner)
          /\ assert_emergency_owner(store, id) =
                IF is_emergency_owner(store, id) THEN Ok(Unit)
                ELSE Err(NotEmergencyOwner)
    /\ op = "assert_owner" =>
          /\ store = pre
          /\ result = IF is_owner(pre, sender[1]) THEN Ok(Unit)
                      ELSE Err(NotOwner)
    /\ op = "assert_proposed" =>
          /\ store = pre
          /\ result = IF is_proposed(pre, sender[1]) THEN Ok(Unit)
                      ELSE Err(NotProposedOwner)
    /\ op = "assert_emergency_owner" =>
          /\ store = pre
          /\ result = IF is_emergency_owner(pre, sender[1]) THEN Ok(Unit)
                      ELSE Err(NotEmergencyOwner)

\* C20 happens: the owner, who is not the emergency owner, was refused by
\* assert_emergency_owner while an emergency owner exists.
C20_Witness ==
    /\ op = "assert_emergency_owner"
    /\ emergency_owner(store) # None
    /\ sender = current(store)
    /\ result = Err(NotEmergencyOwner)

\* C21: a consumed proposal is not resurrected.  A successful ClearProposed
\* or AcceptProposed leaves no proposed identity; while nothing is proposed
\* AcceptProposed fails for every caller and writes nothing; and a proposed
\* identity appears only by a successful ProposeNewOwner of the current owner.
C21_NoResurrection ==
    [][/\ (/\ op' = "update"
           /\ action'.type \in {"ClearProposed", "AcceptProposed"}
           /\ result'.ok)
              => proposed(store') = None
       /\ (/\ proposed(store) = None
           /\ op' = "update"
           /\ action'.type = "AcceptProposed")
              => (~result'.ok /\ store' = store)
       /\ (proposed(store) = None /\ proposed(store') # None)
              => /\ op' = "update"
                 /\ action'.type = "ProposeNewOwner"
                 /\ sender' = current(store)
                 /\ result'.ok
      ]_vars

\* C21 happens: nothing is proposed (any proposal was consumed) and an
\* identity that is not the owner tried AcceptProposed.
C21_Witness ==
    /\ op = "update"
    /\ state(pre).kind = "Std"
    /\ action.type = "AcceptProposed"
    /\ sender # current(pre)
    /\ ~result.ok
    /\ proposed(store) = None

\* C22: the emergency owner is carried through the handover.  An update with
\* ProposeNewOwner, ClearProposed or AcceptProposed leaves emergency_owner()
\* as it was; it changes only in a successful SetEmergencyOwner,
\* ClearEmergencyOwner or AbolishOwnerRole of the current owner.
C22_EmergencyOwnerCarried ==
    [][/\ (/\ op' = "update"
           /\ action'.type \in
                 {"ProposeNewOwner", "ClearProposed", "AcceptProposed"})
              => emergency_owner(store') = emergency_owner(store)
       /\ emergency_owner(store') # emergency_owner(store)
              => /\ op' = "update"
                 /\ action'.type \in {"SetEmergencyOwner",
                                      "ClearEmergencyOwner",
                                      "AbolishOwnerRole"}
                 /\ sender' = current(store)
                 /\ result'.ok
      ]_vars

\* C22 happens: B accepted ownership from a different A and the emergency
\* owner that was set is still the emergency owner.
C22_Witness ==
    /\ op = "update"
    /\ state(pre).kind = "Proposed"
    /\ state(pre).owner # state(pre).proposed
    /\ emergency_owner(pre) # None
    /\ action.type = "AcceptProposed"
    /\ result.ok
    /\ emergency_owner(store) = emergency_owner(pre)

\* C23: authorization is decided against the state persisted before the
\* call.  Where an arm checks the caller, an owner-gated event is refused with
\* NotOwner iff the caller is not the pre-call owner, and AcceptProposed is
\* refused with NotProposedOwner iff the caller is not the pre-call proposed
\* (and succeeds otherwise); in Proposed(A, B) with A # B, ClearProposed by B
\* gives NotOwner and AcceptProposed by A gives NotProposedOwner.
C23_AuthorizedAgainstPreState ==
    /\ (op = "update" /\ action.type \in OwnerGatedIn(state(pre).kind))
          => /\ (result = Err(NotOwner)) <=> (sender # current(pre))
             /\ sender = current(pre) => (result.ok \/ result = Err(StdError))
    /\ (/\ op = "update"
        /\ state(pre).kind = "Proposed"
        /\ action.type = "AcceptProposed")
          => /\ (result = Err(NotProposedOwner)) <=> (sender # proposed(pre))
             /\ result.ok <=> (sender = proposed(pre))
    /\ (/\ op = "update"
        /\ state(pre).kind = "Proposed"
        /\ state(pre).owner # state(pre).proposed)
          => /\ (action.type = "ClearProposed" /\ sender = proposed(pre))
                   => (result = Err(NotOwner) /\ store = pre)
             /\ (action.type = "AcceptProposed" /\ sender = current(pre))
                   => (result = Err(NotProposedOwner) /\ store = pre)

\* C23 happens: B, who would be owner after accepting, tried ClearProposed
\* while A was still the persisted owner.
C23_Witness ==
    /\ op = "update"
    /\ state(pre).kind = "Proposed"
    /\ state(pre).owner # state(pre).proposed
    /\ action.type = "ClearProposed"
    /\ sender = proposed(pre)
    /\ result = Err(NotOwner)
    /\ store = pre

\* The string an attribute carries for an Option<Addr>.
AttrOf(opt) == IF opt = None THEN "None" ELSE opt[1]

\* C24: a successful update returns the attributes action = "update_owner",
\* owner and proposed of the state after the transition ("None" when
\* absent) and sender = the caller; after AcceptProposed by B: owner = B,
\* proposed = "None", sender = B; after AbolishOwnerRole: owner = "None",
\* proposed = "None".
C24_ResponseAttributes ==
    (op = "update" /\ result.ok)
        => /\ result.val =
                  [action |-> "update_owner",
                   owner |-> AttrOf(current(store)),
                   proposed |-> AttrOf(proposed(store)),
                   sender |-> sender[1]]
           /\ action.type = "AcceptProposed"
                 => /\ result.val.owner = state(pre).proposed
                    /\ result.val.proposed = "None"
                    /\ result.val.sender = state(pre).proposed
           /\ action.type = "AbolishOwnerRole"
                 => /\ result.val.owner = "None"
                    /\ result.val.proposed = "None"

\* C24 happens: B accepted from a different A and the response names B as
\* owner and nobody as proposed.
C24_Witness ==
    /\ op = "update"
    /\ action.type = "AcceptProposed"
    /\ result.ok
    /\ state(pre).owner # state(pre).proposed
    /\ result.val.owner = state(pre).proposed
    /\ result.val.proposed = "None"

C26_ErrorPrecedence ==
    /\ (op = "update" /\ ~InTable(state(pre).kind, action.type))
          => (result = Err(StateTransitionError) /\ store = pre)
    /\ (/\ op = "update"
        /\ state(pre).kind = "Std"
        /\ action.type \in {"ProposeNewOwner", "SetEmergencyOwner"})
          => /\ sender # current(pre)
                   => (result = Err(NotOwner) /\ store = pre)
             /\ (/\ sender = current(pre)
                 /\ \/ (action.type = "ProposeNewOwner"
                          /\ action.proposed \in Malformed)
                    \/ (action.type = "SetEmergencyOwner"
                          /\ action.emergency_owner \in Malformed))
                   => (result = Err(StdError) /\ store = pre)
    /\ (op = "initialize" /\ state(pre).kind # "Uninitialized")
          => (result = Err(StateTransitionError) /\ store = pre)

\* C26 happens: a non-owner sent ProposeNewOwner with a malformed address to
\* a Std state and got NotOwner.
C26_Witness ==
    /\ op = "update"
    /\ state(pre).kind = "Std"
    /\ action.type = "ProposeNewOwner"
    /\ action.proposed \in Malformed
    /\ sender # current(pre)
    /\ result = Err(NotOwner)

\* C27: an update succeeds only for the pre-call owner or the pre-call
\* proposed; the proposed, when not also owner, succeeds with AcceptProposed
\* only; so the emergency owner as such changes nothing, and the emergency
\* owner changes only in a call of the current owner.
C27_OnlyOwnerOrProposed ==
    op = "update" =>
        /\ result.ok =>
              /\ (sender = current(pre) \/ sender = proposed(pre))
              /\ sender # current(pre) => action.type = "AcceptProposed"
        /\ (/\ emergency_owner(pre) = sender
            /\ sender # current(pre)
            /\ sender # proposed(pre))
              => (~result.ok /\ store = pre)
        /\ emergency_owner(store) # emergency_owner(pre)
              => sender = current(pre)

\* C27 happens: the emergency owner, neither owner nor proposed, tried to
\* name another emergency owner and was refused.
C27_Witness ==
    /\ op = "update"
    /\ emergency_owner(pre) = sender
    /\ sender # current(pre)
    /\ sender # proposed(pre)
    /\ action.type = "SetEmergencyOwner"
    /\ result = Err(NotOwner)

\* The submitted call of the race with the given event.
RaceCall(type) == CHOOSE m \in race.submitted : m.event.type = type

\* C28: the race of cancel and accept.  From Proposed(A, B) with A # B, with
\* the owner's ClearProposed and B's AcceptProposed executed as atomic calls
\* in either order, the first succeeds and the second fails with
\* StateTransitionError; the final state is Std(owner = A) when
\* ClearProposed ran first and Std(owner = B) when AcceptProposed ran first,
\* and no proposal is pending.
C28_CancelAcceptRace ==
    /\ Cardinality(race.executed) = 1 =>
          /\ result.ok
          /\ state(store).kind = "Std"
          /\ proposed(store) = None
          /\ action.type = "ClearProposed"
                => current(store) = Some(RaceCall("ClearProposed").sender)
          /\ action.type = "AcceptProposed"
                => current(store) = Some(RaceCall("AcceptProposed").sender)
    /\ Cardinality(race.executed) = 2 =>
          /\ result = Err(StateTransitionError)
          /\ store = pre
          /\ state(store).kind = "Std"
          /\ proposed(store) = None
          /\ action.type = "AcceptProposed"
                => current(store) = Some(RaceCall("ClearProposed").sender)
          /\ action.type = "ClearProposed"
                => current(store) = Some(RaceCall("AcceptProposed").sender)

\* C28 happens: both calls ran, ClearProposed first, and B's AcceptProposed
\* was refused with A still owner.
C28_Witness ==
    /\ race.executed = race.submitted
    /\ Cardinality(race.executed) = 2
    /\ action.type = "AcceptProposed"
    /\ result = Err(StateTransitionError)
    /\ current(store) = Some(RaceCall("ClearProposed").sender)

\* C29: after a handover from A to a different B the previous owner holds no
\* role: is_owner(A) and is_proposed(A) are false and every owner-gated event
\* of Std fails with NotOwner for A; an identity becomes owner of an owned
\* slot only by its own AcceptProposed while it is the proposed, and becomes
\* the proposed only by a ProposeNewOwner of the current owner; and at most
\* one identity satisfies is_owner.
C29_PreviousOwnerHoldsNoRole ==
    [][/\ (/\ state(store).kind = "Proposed"
           /\ state(store).owner # state(store).proposed
           /\ op' = "update"
           /\ action'.type = "AcceptProposed"
           /\ result'.ok)
              => /\ ~is_owner(store', state(store).owner)
                 /\ ~is_proposed(store', state(store).owner)
                 /\ \A event \in OwnerUpdate :
                       event.type \in OwnerGatedIn("Std") =>
                          update(store', state(store).owner, event) =
                             [storage |-> store', ret |-> Err(NotOwner)]
       /\ \A id \in Addrs :
             /\ (state(store).kind # "Uninitialized" /\ ~is_owner(store, id)
                    /\ is_owner(store', id))
                   => /\ op' = "update"
                      /\ action'.type = "AcceptProposed"
                      /\ sender' = Some(id)
                      /\ is_proposed(store, id)
             /\ (~is_proposed(store, id) /\ is_proposed(store', id))
                   => /\ op' = "update"
                      /\ action'.type = "ProposeNewOwner"
                      /\ sender' = current(store)
                      /\ addr_validate(action'.proposed) = Ok(id)
       /\ Cardinality({id \in Addrs : is_owner(store, id)}) <= 1
       /\ Cardinality({id \in Addrs : is_owner(store', id)}) <= 1
      ]_vars

\* C29 happens: the handover from A to a different B is done and A is
\* neither owner nor proposed.
C29_Witness ==
    /\ op = "update"
    /\ action.type = "AcceptProposed"
    /\ result.ok
    /\ state(pre).owner # state(pre).proposed
    /\ is_owner(store, state(pre).proposed)
    /\ ~is_owner(store, state(pre).owner)
    /\ ~is_proposed(store, state(pre).owner)

\* C30: the nominee may be the owner.  In Std(owner = A), ProposeNewOwner(A)
\* by A succeeds and leaves Proposed(A, A), where A is both is_owner and
\* is_proposed; AcceptProposed by A from Proposed(A, A) leaves Std(owner = A)
\* with the emergency owner unchanged.
C30_SelfProposal ==
    /\ (/\ op = "update"
        /\ state(pre).kind = "Std"
        /\ action.type = "ProposeNewOwner"
        /\ sender = current(pre)
        /\ Some(action.proposed) = current(pre))
          => /\ result.ok
             /\ state(store) =
                   Proposed(state(pre).owner, state(pre).owner,
                            state(pre).emergency_owner)
             /\ is_owner(store, state(pre).owner)
             /\ is_proposed(store, state(pre).owner)
    /\ (/\ op = "update"
        /\ state(pre).kind = "Proposed"
        /\ state(pre).owner = state(pre).proposed
        /\ action.type = "AcceptProposed"
        /\ sender = current(pre))
          => /\ result.ok
             /\ state(store) =
                   Std(state(pre).owner, state(pre).emergency_owner)

\* C30 happens: A accepted its own proposal while an emergency owner was set.
C30_Witness ==
    /\ op = "update"
    /\ state(pre).kind = "Proposed"
    /\ state(pre).owner = state(pre).proposed
    /\ emergency_owner(pre) # None
    /\ action.type = "AcceptProposed"
    /\ sender = current(pre)
    /\ result.ok
    /\ state(store).kind = "Std"

\* C31: emergency-owner updates overwrite and are idempotent.  In Std,
\* SetEmergencyOwner(Y) by the owner succeeds whatever emergency owner X is
\* set and leaves Y as the emergency owner, X being one no longer when it
\* differs from Y; the same SetEmergencyOwner applied again succeeds and
\* leaves the same state; ClearEmergencyOwner by the owner succeeds when no
\* emergency owner is set and leaves the state unchanged.
C31_EmergencyOwnerOverwrite ==
    /\ (/\ op = "update"
        /\ state(pre).kind = "Std"
        /\ action.type = "SetEmergencyOwner"
        /\ sender = current(pre)
        /\ action.emergency_owner \in Addrs)
          => /\ result.ok
             /\ state(store) =
                   Std(state(pre).owner, Some(action.emergency_owner))
             /\ \A x \in Addrs :
                   (is_emergency_owner(pre, x)
                       /\ x # action.emergency_owner)
                      => ~is_emergency_owner(store, x)
             /\ update(store, sender[1], action).ret.ok
             /\ update(store, sender[1], action).storage = store
    /\ (/\ op = "update"
        /\ state(pre).kind = "Std"
        /\ action.type = "ClearEmergencyOwner"
        /\ sender = current(pre)
        /\ emergency_owner(pre) = None)
          => /\ result.ok
             /\ store = pre

\* C31 happens: the owner named Y while a different X was emergency owner,
\* and Y replaced X.
C31_Witness ==
    /\ op = "update"
    /\ state(pre).kind = "Std"
    /\ action.type = "SetEmergencyOwner"
    /\ sender = current(pre)
    /\ emergency_owner(pre) # None
    /\ emergency_owner(pre) # Some(action.emergency_owner)
    /\ result.ok
    /\ emergency_owner(store) = Some(action.emergency_owner)

====
